---- MODULE Spec2Model ----
(***************************************************************************)
(* Model of the run-time core in src/Practica1/ADC.c:                      *)
(*   - the time-triggered cooperative scheduler (PIT0 tick handler and     *)
(*     the dispatch loop of main), and                                     *)
(*   - the ADC sampler with its 5-sample rolling buffer and formatter.     *)
(* The tick handler is an interrupt: it runs to completion between any two *)
(* steps of the main loop.  The main loop is cut at every read and write   *)
(* of a descriptor's ThreadState, so that a tick can fall between them.    *)
(* A read of ThreadState in main returns the latest value written: the     *)
(* handler ends with __DSB(), and the descriptor type (RMS.h) is not among *)
(* the sources, so its fields are taken to be read from memory each time.  *)
(* The handler's own static tableCounter is 0 on entry and 3 on exit of    *)
(* every run and is not part of the state.                                 *)
(***************************************************************************)
EXTENDS Integers, Sequences, FiniteSets

VARIABLES
    \* ---- scheduler (program state)
    ThreadTable,      \* [0..2 -> [ThreadRate, ThreadState, SystemTime]]
    tableCounter,     \* main's loop index, 0..3
    pc,               \* main's position inside the loop body
    counter,          \* the static counter of Thd_2ms / Thd_5ms / Thd_10ms
    pitIsrFlag,
    \* ---- scheduler (history)
    ticks,            \* runs of the tick handler since start-up
    raised,           \* per descriptor: times the handler set it READY
    lastRaised,       \* descriptors set READY by the latest handler run
    armed,            \* a tick has set all descriptors READY at once
    sinceAll,         \* handlers invoked since the latest such tick
    passAllReady,     \* all descriptors were READY when this pass began
    passLog,          \* handlers invoked in the current table pass
    \* ---- sampler (program state)
    s_activeChannel,
    s_lastKickMs,
    s_tempBuf,        \* [0..4 -> uint8_t]
    s_tempCount,
    s_tempIndex,
    s_lastTempC,
    gAdcTempAscii,    \* [0..3 -> uint8_t]
    \* ---- sampler (caller and history)
    tick,             \* the caller's tick counter, TickBits wide
    elapsed,          \* true ticks since the instant s_lastKickMs denotes
    sinceConv,        \* true ticks since the latest conversion, -1: none yet
    svc,              \* the ADC_Service call made at this tick, or NoCall
    window,           \* conversion flags of the latest <= 20 calls
    pushed,           \* the latest <= 5 samples pushed since ADC_InitModule
    lastCounts,       \* raw code of the latest conversion, -1: none yet
    lastFormat,       \* argument of the latest format call, -1: none yet
    nPushes           \* pushes since ADC_InitModule (kept where counted)

schedVars == <<ThreadTable, tableCounter, pc, counter, pitIsrFlag, ticks,
               raised, lastRaised, armed, sinceAll, passAllReady, passLog>>

adcProg == <<s_activeChannel, s_lastKickMs, s_tempBuf, s_tempCount,
             s_tempIndex, s_lastTempC, gAdcTempAscii>>

adcHist == <<tick, elapsed, sinceConv, svc, window, pushed, lastCounts,
             lastFormat, nPushes>>

adcVars == <<adcProg, adcHist>>

vars == <<schedVars, adcVars>>

(***************************************************************************)
(* Bounds of the model.                                                    *)
(***************************************************************************)
MaxTicks == 30

(***************************************************************************)
(* Scheduler: constants and the task table.                                *)
(***************************************************************************)
STANDBY == "STANDBY"
READY   == "READY"
EXECUTE == "EXECUTE"

TableSize == 3

Tasks == 0 .. (TableSize - 1)

InitThreadTable ==
    [i \in Tasks |->
        [ThreadRate   |-> CASE i = 0 -> 2 [] i = 1 -> 5 [] OTHER -> 10,
         ThreadState  |-> STANDBY,
         SystemTime   |-> 0]]

\* SystemTime++ followed by the threshold test of the tick handler.
TickCrosses_offByOne(i) ==
    ThreadTable[i].SystemTime + 1 > ThreadTable[i].ThreadRate

TickCrosses(i) ==
    ThreadTable[i].SystemTime + 1 >= ThreadTable[i].ThreadRate

\* The descriptor i as the tick handler leaves it.
TickEntry_noReset(i) ==
    IF TickCrosses(i)
    THEN [ThreadTable[i] EXCEPT !.ThreadState = READY,
                                !.SystemTime = ThreadTable[i].SystemTime + 1]
    ELSE [ThreadTable[i] EXCEPT !.SystemTime = ThreadTable[i].SystemTime + 1]

TickEntry(i) ==
    IF TickCrosses(i)
    THEN [ThreadTable[i] EXCEPT !.ThreadState = READY, !.SystemTime = 0]
    ELSE [ThreadTable[i] EXCEPT !.SystemTime = ThreadTable[i].SystemTime + 1]

Append3(s, i) == IF Len(s) < TableSize THEN Append(s, i) ELSE s

\* PIT0_IRQHandler: one whole run of the interrupt handler.
PIT_LED_HANDLER ==
    /\ ticks < MaxTicks
    /\ pitIsrFlag' = TRUE
    /\ ThreadTable' = [i \in Tasks |-> TickEntry(i)]
    /\ ticks' = ticks + 1
    /\ lastRaised' = {i \in Tasks : TickCrosses(i)}
    /\ raised' = [i \in Tasks |-> IF TickCrosses(i) THEN raised[i] + 1 ELSE raised[i]]
    /\ IF \A i \in Tasks : TickCrosses(i)
       THEN armed' = TRUE /\ sinceAll' = <<>>
       ELSE UNCHANGED <<armed, sinceAll>>
    /\ UNCHANGED <<tableCounter, pc, counter, passAllReady, passLog>>
    /\ UNCHANGED adcVars

\* for-loop increment of main.
NextEntry_skip(i) == i + 2

NextEntry(i) == i + 1

\* while(true): the for loop ended, a new table pass begins.
MainNewPass ==
    /\ pc = "for"
    /\ ~(tableCounter < TableSize)
    /\ tableCounter' = 0
    /\ passAllReady' = \A i \in Tasks : ThreadTable[i].ThreadState = READY
    /\ passLog' = <<>>
    /\ UNCHANGED <<ThreadTable, pc, counter, pitIsrFlag, ticks, raised,
                   lastRaised, armed, sinceAll>>
    /\ UNCHANGED adcVars

\* if (ThreadTable[tableCounter].ThreadState == READY)
MainCheck ==
    /\ pc = "for"
    /\ tableCounter < TableSize
    /\ pc' = IF ThreadTable[tableCounter].ThreadState = READY THEN "exec" ELSE "idle"
    /\ UNCHANGED <<ThreadTable, tableCounter, counter, pitIsrFlag, ticks, raised,
                   lastRaised, armed, sinceAll, passAllReady, passLog>>
    /\ UNCHANGED adcVars

\* ThreadTable[tableCounter].ThreadState = EXECUTE;
MainSetExecute ==
    /\ pc = "exec"
    /\ ThreadTable' = [ThreadTable EXCEPT ![tableCounter].ThreadState = EXECUTE]
    /\ pc' = "call"
    /\ UNCHANGED <<tableCounter, counter, pitIsrFlag, ticks, raised,
                   lastRaised, armed, sinceAll, passAllReady, passLog>>
    /\ UNCHANGED adcVars

\* ThreadTable[tableCounter].ThreadHandler();  the body is counter++ (uint8_t)
MainCallHandler ==
    /\ pc = "call"
    /\ counter' = [counter EXCEPT ![tableCounter] = (counter[tableCounter] + 1) % 256]
    /\ pc' = "ret"
    /\ passLog' = Append3(passLog, tableCounter)
    /\ sinceAll' = IF armed THEN Append3(sinceAll, tableCounter) ELSE sinceAll
    /\ UNCHANGED <<ThreadTable, tableCounter, pitIsrFlag, ticks, raised,
                   lastRaised, armed, passAllReady>>
    /\ UNCHANGED adcVars

\* The handler returned: ThreadTable[tableCounter].ThreadState = STANDBY;
MainHandlerReturn_noStandby ==
    /\ pc = "ret"
    /\ tableCounter' = NextEntry(tableCounter)
    /\ pc' = "for"
    /\ UNCHANGED <<ThreadTable, counter, pitIsrFlag, ticks, raised, lastRaised,
                   armed, sinceAll, passAllReady, passLog>>
    /\ UNCHANGED adcVars

MainHandlerReturn_setsReady ==
    /\ pc = "ret"
    /\ ThreadTable' = [ThreadTable EXCEPT ![tableCounter].ThreadState = READY]
    /\ tableCounter' = NextEntry(tableCounter)
    /\ pc' = "for"
    /\ UNCHANGED <<counter, pitIsrFlag, ticks, raised, lastRaised, armed,
                   sinceAll, passAllReady, passLog>>
    /\ UNCHANGED adcVars

MainHandlerReturn ==
    /\ pc = "ret"
    /\ ThreadTable' = [ThreadTable EXCEPT ![tableCounter].ThreadState = STANDBY]
    /\ tableCounter' = NextEntry(tableCounter)
    /\ pc' = "for"
    /\ UNCHANGED <<counter, pitIsrFlag, ticks, raised, lastRaised, armed,
                   sinceAll, passAllReady, passLog>>
    /\ UNCHANGED adcVars

\* else Thd_idle();
MainIdle ==
    /\ pc = "idle"
    /\ tableCounter' = NextEntry(tableCounter)
    /\ pc' = "for"
    /\ UNCHANGED <<ThreadTable, counter, pitIsrFlag, ticks, raised, lastRaised,
                   armed, sinceAll, passAllReady, passLog>>
    /\ UNCHANGED adcVars

SchedInit ==
    /\ ThreadTable = InitThreadTable
    /\ tableCounter = 0
    /\ pc = "for"
    /\ counter = [i \in Tasks |-> 0]
    /\ pitIsrFlag = FALSE
    /\ ticks = 0
    /\ raised = [i \in Tasks |-> 0]
    /\ lastRaised = {}
    /\ armed = FALSE
    /\ sinceAll = <<>>
    /\ passAllReady = FALSE
    /\ passLog = <<>>

SchedNext ==
    \/ PIT_LED_HANDLER
    \/ MainNewPass
    \/ MainCheck
    \/ MainSetExecute
    \/ MainCallHandler
    \/ MainHandlerReturn
    \/ MainIdle

(***************************************************************************)
(* Sampler: constants of ADC.h.                                            *)
(***************************************************************************)
ADC16_DEFAULT_CHANNEL == 0
ADC_FULL_SCALE_COUNTS == 4096
TEMP_MAX_C == 40
ADC_SAMPLE_PERIOD_MS == 20
ADC_AVG_WINDOW == 5
ASCII_ZERO == 48
ASCII_DOT_CHAR == 46

(***************************************************************************)
(* Bounds of the sampler model.  The tick counter is uint32_t in the code; *)
(* the model keeps it TickBits wide so that rollover is reached.           *)
(***************************************************************************)
TickBits == 6

MaxPushes == 12

TickMod == 2 ^ TickBits

\* Raw codes the converter returns while the buffer is examined; they map to
\* 10, 20 and 31 degrees.
RawCodes == {1024, 2048, 3175}

\* Every uint16_t value ADC_CountsToTempC can be given.
AllCodes == 0 .. 65535

\* The one raw code used where only the timing of conversions is examined.
TimingCodes == {2048}

\* Tick arguments of the calls made while the buffer is examined.
TickInputs == {0, ADC_SAMPLE_PERIOD_MS}

Channels == {ADC16_DEFAULT_CHANNEL, 1}

FormatInputs == {0, 23, 40}

NoCall == [called |-> FALSE]

(***************************************************************************)
(* Sampler: integer widths and pure helpers.                               *)
(***************************************************************************)
U8(x) == x % 256

U16(x) == x % 65536

\* (uint32_t)(a - b) on the TickBits-wide counter.
TickSub(a, b) == ((a - b) + TickMod) % TickMod

\* ADC_CountsToTempC; counts * 40 cannot overflow uint32_t for a uint16_t.
ADC_CountsToTempC_noClamp(counts) ==
    U8((counts * TEMP_MAX_C) \div ADC_FULL_SCALE_COUNTS)

ADC_CountsToTempC(counts) ==
    LET t == (counts * TEMP_MAX_C) \div ADC_FULL_SCALE_COUNTS
    IN  U8(IF t > TEMP_MAX_C THEN TEMP_MAX_C ELSE t)

\* ADC_PushTemp: the slot written, the next index, the new count.
PushBuf_nextSlot(temp_c) ==
    [s_tempBuf EXCEPT ![(s_tempIndex + 1) % ADC_AVG_WINDOW] = temp_c]

PushBuf(temp_c) == [s_tempBuf EXCEPT ![s_tempIndex] = temp_c]

PushIndex_saturate ==
    IF s_tempIndex + 1 < ADC_AVG_WINDOW THEN s_tempIndex + 1 ELSE s_tempIndex

PushIndex == U8((s_tempIndex + 1) % ADC_AVG_WINDOW)

PushCount_unbounded == U8(s_tempCount + 1)

PushCount ==
    IF s_tempCount < ADC_AVG_WINDOW THEN U8(s_tempCount + 1) ELSE s_tempCount

\* if ((uint32_t)(tick_ms - s_lastKickMs) >= (uint32_t)ADC_SAMPLE_PERIOD_MS)
ServiceDue_signed(tick_ms) ==
    tick_ms - s_lastKickMs >= ADC_SAMPLE_PERIOD_MS

ServiceDue_strict(tick_ms) ==
    TickSub(tick_ms, s_lastKickMs) > ADC_SAMPLE_PERIOD_MS

ServiceDue(tick_ms) ==
    TickSub(tick_ms, s_lastKickMs) >= ADC_SAMPLE_PERIOD_MS

\* s_lastKickMs = tick_ms;
KickTime_accumulate(tick_ms) == (s_lastKickMs + ADC_SAMPLE_PERIOD_MS) % TickMod

KickTime(tick_ms) == tick_ms

\* acc += s_tempBuf[i] for i < n, acc being uint16_t.
RECURSIVE Accumulate(_)
Accumulate(n) ==
    IF n = 0 THEN 0 ELSE U16(Accumulate(n - 1) + s_tempBuf[n - 1])

ADC_GetAvgTempC_fixedDivisor ==
    IF s_tempCount = 0
    THEN 0
    ELSE U8(Accumulate(s_tempCount) \div ADC_AVG_WINDOW)

ADC_GetAvgTempC ==
    IF s_tempCount = 0
    THEN 0
    ELSE U8(Accumulate(s_tempCount) \div s_tempCount)

ADC_GetLastTempC == s_lastTempC

FormatTemp_fractionFromUnits(temp_c) ==
    LET tens  == U8(temp_c \div 10)
        units == U8(temp_c % 10)
    IN  [k \in 0 .. 3 |->
            CASE k = 0 -> U8(ASCII_ZERO + tens)
              [] k = 1 -> U8(ASCII_ZERO + units)
              [] k = 2 -> U8(ASCII_DOT_CHAR)
              [] OTHER -> U8(ASCII_ZERO + units)]

FormatTemp(temp_c) ==
    LET tens  == U8(temp_c \div 10)
        units == U8(temp_c % 10)
    IN  [k \in 0 .. 3 |->
            CASE k = 0 -> U8(ASCII_ZERO + tens)
              [] k = 1 -> U8(ASCII_ZERO + units)
              [] k = 2 -> U8(ASCII_DOT_CHAR)
              [] OTHER -> U8(ASCII_ZERO + 0)]

(***************************************************************************)
(* Sampler: the public functions, as they act on the module state.         *)
(***************************************************************************)
ADC_InitModule_keepCount ==
    /\ s_activeChannel' = ADC16_DEFAULT_CHANNEL
    /\ s_lastKickMs' = 0
    /\ s_tempIndex' = 0
    /\ s_lastTempC' = 0
    /\ UNCHANGED <<s_tempBuf, s_tempCount, gAdcTempAscii>>

ADC_InitModule ==
    /\ s_activeChannel' = ADC16_DEFAULT_CHANNEL
    /\ s_lastKickMs' = 0
    /\ s_tempIndex' = 0
    /\ s_tempCount' = 0
    /\ s_lastTempC' = 0
    /\ UNCHANGED <<s_tempBuf, gAdcTempAscii>>

ADC_SetChannel(channel) ==
    /\ s_activeChannel' = channel
    /\ UNCHANGED <<s_lastKickMs, s_tempBuf, s_tempCount, s_tempIndex,
                   s_lastTempC, gAdcTempAscii>>

\* counts is what ADC_ConvertOnce_Polling returns when the call converts.
ADC_Service_alwaysKick(tick_ms, counts) ==
    IF ServiceDue(tick_ms)
    THEN /\ s_lastKickMs' = KickTime(tick_ms)
         /\ s_lastTempC' = ADC_CountsToTempC(counts)
         /\ s_tempBuf' = PushBuf(ADC_CountsToTempC(counts))
         /\ s_tempIndex' = PushIndex
         /\ s_tempCount' = PushCount
         /\ UNCHANGED <<s_activeChannel, gAdcTempAscii>>
    ELSE /\ s_lastKickMs' = KickTime(tick_ms)
         /\ UNCHANGED <<s_activeChannel, s_tempBuf, s_tempCount, s_tempIndex,
                        s_lastTempC, gAdcTempAscii>>

ADC_Service(tick_ms, counts) ==
    IF ServiceDue(tick_ms)
    THEN /\ s_lastKickMs' = KickTime(tick_ms)
         /\ s_lastTempC' = ADC_CountsToTempC(counts)
         /\ s_tempBuf' = PushBuf(ADC_CountsToTempC(counts))
         /\ s_tempIndex' = PushIndex
         /\ s_tempCount' = PushCount
         /\ UNCHANGED <<s_activeChannel, gAdcTempAscii>>
    ELSE UNCHANGED adcProg

ADC_FormatTempToAscii(temp_c) ==
    /\ gAdcTempAscii' = FormatTemp(temp_c)
    /\ UNCHANGED <<s_activeChannel, s_lastKickMs, s_tempBuf, s_tempCount,
                   s_tempIndex, s_lastTempC>>

ADC_FormatAvgTempToAscii == ADC_FormatTempToAscii(ADC_GetAvgTempC)

\* The static initialisers of ADC.c; t is the caller's counter at start-up.
AdcInitAt(t) ==
    /\ s_activeChannel = ADC16_DEFAULT_CHANNEL
    /\ s_lastKickMs = 0
    /\ s_tempBuf = [k \in 0 .. (ADC_AVG_WINDOW - 1) |-> 0]
    /\ s_tempCount = 0
    /\ s_tempIndex = 0
    /\ s_lastTempC = 0
    /\ gAdcTempAscii = FormatTemp(0)
    /\ tick = t
    /\ elapsed = t
    /\ sinceConv = -1
    /\ svc = NoCall
    /\ window = <<>>
    /\ pushed = <<>>
    /\ lastCounts = -1
    /\ lastFormat = -1
    /\ nPushes = 0

AdcInit == AdcInitAt(0)

LastN(s, n) == IF Len(s) <= n THEN s ELSE SubSeq(s, Len(s) - n + 1, Len(s))

(***************************************************************************)
(* Calls examined for the buffer: any caller, any order.                   *)
(***************************************************************************)
CallInitModule ==
    /\ ADC_InitModule
    /\ pushed' = <<>>
    /\ lastCounts' = -1
    /\ UNCHANGED <<tick, elapsed, sinceConv, svc, window, lastFormat, nPushes>>
    /\ UNCHANGED schedVars

CallSetChannel ==
    /\ \E channel \in Channels : ADC_SetChannel(channel)
    /\ UNCHANGED adcHist
    /\ UNCHANGED schedVars

CallService ==
    /\ \E tick_ms \in TickInputs, counts \in RawCodes :
          /\ ADC_Service(tick_ms, counts)
          /\ IF ServiceDue(tick_ms)
             THEN /\ pushed' = LastN(Append(pushed, ADC_CountsToTempC(counts)),
                                     ADC_AVG_WINDOW)
                  /\ lastCounts' = counts
             ELSE UNCHANGED <<pushed, lastCounts>>
    /\ UNCHANGED <<tick, elapsed, sinceConv, svc, window, lastFormat, nPushes>>
    /\ UNCHANGED schedVars

CallFormatTemp ==
    /\ \E temp_c \in FormatInputs :
          /\ ADC_FormatTempToAscii(temp_c)
          /\ lastFormat' = temp_c
    /\ UNCHANGED <<tick, elapsed, sinceConv, svc, window, pushed, lastCounts,
                   nPushes>>
    /\ UNCHANGED schedVars

CallFormatAvg ==
    /\ ADC_FormatAvgTempToAscii
    /\ lastFormat' = ADC_GetAvgTempC
    /\ UNCHANGED <<tick, elapsed, sinceConv, svc, window, pushed, lastCounts,
                   nPushes>>
    /\ UNCHANGED schedVars

AdcNext ==
    \/ CallInitModule
    \/ CallSetChannel
    \/ CallService
    \/ CallFormatTemp
    \/ CallFormatAvg

(***************************************************************************)
(* Calls examined for the timing: the caller's counter advances one tick   *)
(* at a time and ADC_Service is called with it, as often or as rarely as   *)
(* the caller likes.                                                       *)
(***************************************************************************)
TickAdvance ==
    /\ elapsed < TickMod - 1
    /\ tick' = (tick + 1) % TickMod
    /\ elapsed' = elapsed + 1
    /\ sinceConv' = IF sinceConv >= 0 THEN sinceConv + 1 ELSE sinceConv
    /\ svc' = NoCall
    /\ UNCHANGED <<window, pushed, lastCounts, lastFormat, nPushes>>
    /\ UNCHANGED adcProg
    /\ UNCHANGED schedVars

TimedService ==
    /\ \E counts \in TimingCodes : ADC_Service(tick, counts)
    /\ svc' = [called |-> TRUE, tick_ms |-> tick, last |-> s_lastKickMs,
               d |-> elapsed, gap |-> sinceConv,
               conv |-> (s_tempIndex' # s_tempIndex)]
    /\ IF s_tempIndex' # s_tempIndex
       THEN elapsed' = 0 /\ sinceConv' = 0
       ELSE UNCHANGED <<elapsed, sinceConv>>
    /\ UNCHANGED <<tick, window, pushed, lastCounts, lastFormat, nPushes>>
    /\ UNCHANGED schedVars

TimedInitModule ==
    /\ ADC_InitModule
    /\ elapsed' = tick
    /\ sinceConv' = -1
    /\ svc' = NoCall
    /\ UNCHANGED <<tick, window, pushed, lastCounts, lastFormat, nPushes>>
    /\ UNCHANGED schedVars

SvcNext ==
    \/ TickAdvance
    \/ TimedService
    \/ TimedInitModule

(***************************************************************************)
(* The first conversion after start-up, the converter returning any code.  *)
(***************************************************************************)
FirstConversion ==
    /\ s_tempCount = 0
    /\ \E counts \in AllCodes :
          /\ ADC_Service(ADC_SAMPLE_PERIOD_MS, counts)
          /\ pushed' = LastN(Append(pushed, ADC_CountsToTempC(counts)),
                             ADC_AVG_WINDOW)
          /\ lastCounts' = counts
    /\ UNCHANGED <<tick, elapsed, sinceConv, svc, window, lastFormat, nPushes>>
    /\ UNCHANGED schedVars

(***************************************************************************)
(* ADC_FormatTempToAscii given any uint8_t value.                          *)
(***************************************************************************)
Bytes == 0 .. 255

FormatAny ==
    /\ \E temp_c \in Bytes :
          /\ ADC_FormatTempToAscii(temp_c)
          /\ lastFormat' = temp_c
    /\ UNCHANGED <<tick, elapsed, sinceConv, svc, window, pushed, lastCounts,
                   nPushes>>
    /\ UNCHANGED schedVars

(***************************************************************************)
(* Pushes counted since ADC_InitModule: calls of ADC_Service and of        *)
(* ADC_InitModule, at most MaxPushes pushes after each initialisation.     *)
(***************************************************************************)
CountedService ==
    /\ nPushes < MaxPushes
    /\ \E tick_ms \in TickInputs, counts \in RawCodes :
          /\ ADC_Service(tick_ms, counts)
          /\ IF ServiceDue(tick_ms)
             THEN /\ pushed' = LastN(Append(pushed, ADC_CountsToTempC(counts)),
                                     ADC_AVG_WINDOW)
                  /\ lastCounts' = counts
                  /\ nPushes' = nPushes + 1
             ELSE UNCHANGED <<pushed, lastCounts, nPushes>>
    /\ UNCHANGED <<tick, elapsed, sinceConv, svc, window, lastFormat>>
    /\ UNCHANGED schedVars

CountedInitModule ==
    /\ ADC_InitModule
    /\ pushed' = <<>>
    /\ lastCounts' = -1
    /\ nPushes' = 0
    /\ UNCHANGED <<tick, elapsed, sinceConv, svc, window, lastFormat>>
    /\ UNCHANGED schedVars

PushNext ==
    \/ CountedService
    \/ CountedInitModule

(***************************************************************************)
(* ADC_Service invoked once per tick, the tick argument incrementing by 1  *)
(* on each call, from any first tick value.                                *)
(***************************************************************************)
EveryTickCall ==
    /\ \E counts \in TimingCodes : ADC_Service(tick, counts)
    /\ window' = LastN(Append(window, s_tempIndex' # s_tempIndex),
                       ADC_SAMPLE_PERIOD_MS)
    /\ tick' = (tick + 1) % TickMod
    /\ UNCHANGED <<elapsed, sinceConv, svc, pushed, lastCounts, lastFormat,
                   nPushes>>
    /\ UNCHANGED schedVars

(***************************************************************************)
(* The sampler run as a scheduler task whose converter never raises its    *)
(* conversion-done flag: the handler of SamplerTask calls ADC_Service with *)
(* the number of ticks so far; a call that is due writes s_lastKickMs and  *)
(* enters the polling loop of ADC_ConvertOnce_Polling, which never ends.   *)
(***************************************************************************)
SamplerTask == 2

HangCallHandler ==
    /\ pc = "call"
    /\ counter' = [counter EXCEPT ![tableCounter] = (counter[tableCounter] + 1) % 256]
    /\ passLog' = Append3(passLog, tableCounter)
    /\ sinceAll' = IF armed THEN Append3(sinceAll, tableCounter) ELSE sinceAll
    /\ IF tableCounter = SamplerTask /\ ServiceDue(ticks % TickMod)
       THEN /\ s_lastKickMs' = KickTime(ticks % TickMod)
            /\ pc' = "poll"
       ELSE /\ s_lastKickMs' = s_lastKickMs
            /\ pc' = "ret"
    /\ UNCHANGED <<ThreadTable, tableCounter, pitIsrFlag, ticks, raised,
                   lastRaised, armed, passAllReady>>
    /\ UNCHANGED <<s_activeChannel, s_tempBuf, s_tempCount, s_tempIndex,
                   s_lastTempC, gAdcTempAscii>>
    /\ UNCHANGED adcHist

\* while (!(kADC16_ChannelConversionDoneFlag & ...)) { }  the flag never set
HangPoll ==
    /\ pc = "poll"
    /\ UNCHANGED vars

HangNext ==
    \/ PIT_LED_HANDLER
    \/ MainNewPass
    \/ MainCheck
    \/ MainSetExecute
    \/ HangCallHandler
    \/ MainHandlerReturn
    \/ MainIdle
    \/ HangPoll

Init == SchedInit /\ AdcInit

\* As Init, the caller's counter holding any value at the first call.
EveryTickInit ==
    /\ SchedInit
    /\ \E t \in 0 .. (TickMod - 1) : AdcInitAt(t)

SchedSpec == Init /\ [][SchedNext]_vars

Spec == Init /\ [][AdcNext]_vars

SvcSpec == Init /\ [][SvcNext]_vars

MapSpec == Init /\ [][FirstConversion]_vars

FormatSpec == Init /\ [][FormatAny]_vars

HangSpec == Init /\ [][HangNext]_vars

PushSpec == Init /\ [][PushNext]_vars

EveryTickSpec == EveryTickInit /\ [][EveryTickCall]_vars

(***************************************************************************)
(* Scheduler claims.                                                       *)
(***************************************************************************)
Rate(i) == ThreadTable[i].ThreadRate

\* C1: the tick handler sets a descriptor of period P READY at exactly the
\* ticks P, 2P, 3P, ... and at no other tick, whatever the main loop does:
\* after n ticks it has been raised n div P times, and the latest tick raised
\* it iff that tick's number is a multiple of P.
C1_ReadyExactlyEveryPeriod ==
    \A i \in Tasks :
        /\ raised[i] = ticks \div Rate(i)
        /\ (i \in lastRaised) <=> (ticks > 0 /\ ticks % Rate(i) = 0)

\* C1 witness: tick 10 raised all three descriptors while a handler was
\* executing in the main loop.
C1_Witness ==
    /\ ticks = 10
    /\ lastRaised = Tasks
    /\ pc = "ret"
    /\ raised[0] = 5

\* C2: no READY signal is lost: every signal raised for a descriptor gets an
\* invocation of its handler of its own, so a descriptor that is back in
\* STANDBY has had as many handler invocations as READY signals.
C2_EverySignalServiced ==
    \A i \in Tasks :
        ThreadTable[i].ThreadState = STANDBY => counter[i] = raised[i]

LegalTransition(old, new) ==
    \/ old = STANDBY /\ new = READY
    \/ old = READY   /\ new = EXECUTE
    \/ old = EXECUTE /\ new = STANDBY

\* C3: a descriptor's state changes only along STANDBY->READY,
\* READY->EXECUTE and EXECUTE->STANDBY.
C3_OnlyLegalTransitions ==
    [][\A i \in Tasks :
          ThreadTable'[i].ThreadState # ThreadTable[i].ThreadState =>
              LegalTransition(ThreadTable[i].ThreadState,
                              ThreadTable'[i].ThreadState)]_vars

IsPrefix(s, t) ==
    /\ Len(s) <= Len(t)
    /\ \A k \in 1 .. Len(s) : s[k] = t[k]

TableOrder == [k \in 1 .. TableSize |-> k - 1]

\* C4 (as claimed): after a tick that sets all three descriptors READY, the
\* handlers next executed are A, B, C in that order, wherever the main loop
\* was in its pass when the tick fired.
C4_OrderAfterCommonTick ==
    armed => IsPrefix(sinceAll, TableOrder)

\* Entries of the table the current pass has already dispatched.
PassDone == IF pc = "ret" THEN tableCounter + 1 ELSE tableCounter

\* C4 (amended): a table pass that begins with all three descriptors READY
\* executes their handlers in the order A, B, C within that pass: at every
\* point of the pass the handlers invoked so far are exactly the entries
\* already passed, in table order, and no entry is skipped as idle.
C4_PassInTableOrder ==
    passAllReady =>
        /\ pc # "idle"
        /\ passLog = [k \in 1 .. PassDone |-> k - 1]

\* C4 witness: a pass that began with A, B and C all READY has ended.
C4_Witness ==
    /\ passAllReady
    /\ pc = "for"
    /\ tableCounter = TableSize
    /\ passLog = TableOrder
    /\ armed

(***************************************************************************)
(* Sampler claims.                                                         *)
(***************************************************************************)
RECURSIVE SeqSum(_)
SeqSum(s) == IF s = <<>> THEN 0 ELSE s[1] + SeqSum(Tail(s))

\* C5: after 5 or more pushes since ADC_InitModule, ADC_GetAvgTempC is the
\* floor of the mean of the last 5 pushed values; older values play no part.
C5_AverageOfLastFive ==
    Len(pushed) = ADC_AVG_WINDOW =>
        ADC_GetAvgTempC = SeqSum(pushed) \div ADC_AVG_WINDOW

\* C5 witness: seven or more pushes (the index has wrapped to 2), the last
\* five being 31, 20, 10, 31, 20, whose mean is 22.4.
C5_Witness ==
    /\ pushed = <<31, 20, 10, 31, 20>>
    /\ s_tempIndex = 2
    /\ ADC_GetAvgTempC = 22

\* C6: after exactly k pushes since ADC_InitModule, 1 <= k < 5,
\* ADC_GetAvgTempC is the floor of the mean of those k values: the divisor is
\* k and slots not written since the initialisation do not contribute.
C6_AverageOfPushedOnly ==
    (Len(pushed) >= 1 /\ Len(pushed) < ADC_AVG_WINDOW) =>
        /\ s_tempCount = Len(pushed)
        /\ ADC_GetAvgTempC = SeqSum(pushed) \div Len(pushed)

\* C6 witness: pushes 10, 20, 31 after a re-initialisation that left 31 in
\* the slots not yet written; the average is 20.
C6_Witness ==
    /\ pushed = <<10, 20, 31>>
    /\ s_tempBuf[3] = 31
    /\ s_tempBuf[4] = 31
    /\ ADC_GetAvgTempC = 20

Conversions(w) == Cardinality({k \in 1 .. Len(w) : w[k]})

\* C7 (as claimed): with ADC_Service called once per tick, every run of 20
\* consecutive calls performs exactly one conversion.
C7_OnePerTwentyCalls ==
    Len(window) = ADC_SAMPLE_PERIOD_MS => Conversions(window) = 1

\* C7 (amended): every run of 20 consecutive calls performs at most one
\* conversion, and exactly one unless it is the run of the first 20 calls
\* after ADC_InitModule made with the ticks 0..19, before any conversion.
C7_OnePerTwentyCallsAfterFirstPeriod ==
    Len(window) = ADC_SAMPLE_PERIOD_MS =>
        \/ Conversions(window) = 1
        \/ /\ Conversions(window) = 0
           /\ s_tempCount = 0
           /\ s_lastKickMs = 0
           /\ tick = ADC_SAMPLE_PERIOD_MS

\* C7 witness: 20 consecutive calls across the rollover of the counter, with
\* exactly one conversion among them.
C7_Witness ==
    /\ Len(window) = ADC_SAMPLE_PERIOD_MS
    /\ Conversions(window) = 1
    /\ tick < ADC_SAMPLE_PERIOD_MS - 1
    /\ s_tempCount = ADC_AVG_WINDOW

\* C8: two successive conversions are at least ADC_SAMPLE_PERIOD_MS ticks
\* apart, however often or rarely ADC_Service is called; a late call converts
\* once and the next conversion waits a full period from that call.
C8_ConversionsAPeriodApart ==
    (svc.called /\ svc.conv /\ svc.gap >= 0) => svc.gap >= ADC_SAMPLE_PERIOD_MS

\* C8 witness: a late call, two periods or more after the previous
\* conversion, has performed a conversion.
C8_Witness ==
    /\ svc.called
    /\ svc.conv
    /\ svc.gap >= 2 * ADC_SAMPLE_PERIOD_MS

\* C9: across rollover of the counter, a call whose true distance d from
\* the stored s_lastKickMs is below 2^TickBits converts iff
\* d >= ADC_SAMPLE_PERIOD_MS, also when the tick is numerically smaller than
\* s_lastKickMs.
C9_RolloverSafe ==
    svc.called =>
        /\ svc.d < TickMod
        /\ svc.tick_ms = (svc.last + svc.d) % TickMod
        /\ svc.conv <=> (svc.d >= ADC_SAMPLE_PERIOD_MS)

\* C9 witness: a call after rollover, the tick numerically below
\* s_lastKickMs, that converts.
C9_Witness ==
    /\ svc.called
    /\ svc.tick_ms < svc.last
    /\ svc.d >= ADC_SAMPLE_PERIOD_MS
    /\ svc.conv

\* C10: the maximum raw code, ADC_FULL_SCALE_COUNTS - 1, maps to TEMP_MAX_C.
C10_MaxCodeGivesMaxTemp ==
    lastCounts = ADC_FULL_SCALE_COUNTS - 1 => s_lastTempC = TEMP_MAX_C

Min(a, b) == IF a <= b THEN a ELSE b

\* C11: for every 16-bit raw code, ADC_CountsToTempC returns
\* min(floor(raw * 40 / 4096), 40): the result lies in [0, 40], does not
\* decrease when the raw code grows, and 2048 maps to 20.
C11_MapIsClampedScaling ==
    lastCounts >= 0 =>
        /\ ADC_GetLastTempC = Min((lastCounts * 40) \div 4096, 40)
        /\ ADC_GetLastTempC >= 0
        /\ ADC_GetLastTempC <= TEMP_MAX_C
        /\ lastCounts > 0 => ADC_CountsToTempC(lastCounts - 1) <= ADC_GetLastTempC
        /\ lastCounts = 2048 => ADC_GetLastTempC = 20

\* C11 witness: the largest 16-bit code has been converted and saturates
\* at 40.
C11_Witness ==
    /\ lastCounts = 65535
    /\ ADC_GetLastTempC = 40
    /\ s_tempBuf[0] = 40

\* The character code of a decimal digit: '0' is 48.
Digit(n) == 48 + n

\* C12: for every v in [0, 99], ADC_FormatTempToAscii(v) leaves the buffer
\* equal to [digit(v div 10), digit(v mod 10), '.', '0'], the fourth
\* character being '0' whatever v is.
C12_FormatIsTwoDigitsDotZero ==
    (lastFormat >= 0 /\ lastFormat <= 99) =>
        /\ gAdcTempAscii[0] = Digit(lastFormat \div 10)
        /\ gAdcTempAscii[1] = Digit(lastFormat % 10)
        /\ gAdcTempAscii[2] = 46
        /\ gAdcTempAscii[3] = Digit(0)

\* C12 witness: 23 has been formatted as '2', '3', '.', '0'.
C12_Witness ==
    /\ lastFormat = 23
    /\ gAdcTempAscii = [k \in 0 .. 3 |->
                           CASE k = 0 -> 50 [] k = 1 -> 51 [] k = 2 -> 46
                             [] OTHER -> 48]

\* C13: after every run of the tick handler each descriptor's elapsed
\* counter satisfies 0 <= SystemTime < ThreadRate; it is back at 0 in the
\* very run in which it reaches the period, so it always equals the number
\* of ticks modulo the period, whatever the main loop is doing.
C13_ElapsedBelowPeriod ==
    \A i \in Tasks :
        /\ ThreadTable[i].SystemTime >= 0
        /\ ThreadTable[i].SystemTime < ThreadTable[i].ThreadRate
        /\ ThreadTable[i].SystemTime = ticks % ThreadTable[i].ThreadRate
        /\ (i \in lastRaised) => ThreadTable[i].SystemTime = 0

\* C13 witness: tick 5 has just reset the counter of B (period 5) while a
\* handler is executing; A is at 1 and C at 5.
C13_Witness ==
    /\ ticks = 5
    /\ lastRaised = {1}
    /\ ThreadTable[0].SystemTime = 1
    /\ ThreadTable[1].SystemTime = 0
    /\ ThreadTable[2].SystemTime = 5
    /\ pc = "ret"

Executing == {i \in Tasks : ThreadTable[i].ThreadState = EXECUTE}

\* C15: the dispatcher is non-reentrant: at most one descriptor is in
\* EXECUTE, it is the one main is dispatching, and when a handler is invoked
\* no descriptor other than the one being invoked is in EXECUTE and no
\* earlier invocation is still running.
C15_NonReentrant ==
    /\ [](/\ Cardinality(Executing) <= 1
          /\ \A i \in Executing : i = tableCounter /\ pc \in {"call", "ret"})
    /\ [][counter' # counter =>
             /\ pc = "call"
             /\ pc' = "ret"
             /\ Executing \subseteq {tableCounter}
             /\ \A i \in Tasks :
                   counter'[i] # counter[i] => i = tableCounter]_vars

\* C15 witness: the handler of B is executing (B in EXECUTE) while A has
\* been set READY again by a tick and C is READY too.
C15_Witness ==
    /\ Executing = {1}
    /\ pc = "ret"
    /\ ThreadTable[0].ThreadState = READY
    /\ ThreadTable[2].ThreadState = READY

\* C19: no handler runs without a READY signal: a descriptor's handler has
\* been invoked at most as many times as the tick handler has set the
\* descriptor READY, which is floor(ticks / period); so never before tick P.
C19_InvokedAtMostRaised ==
    \A i \in Tasks :
        /\ counter[i] <= raised[i]
        /\ raised[i] = ticks \div ThreadTable[i].ThreadRate
        /\ counter[i] > 0 => ticks >= ThreadTable[i].ThreadRate

\* C19 witness: after 10 ticks A has run for each of its 5 signals, B for
\* both of its 2 and C for its one.
C19_Witness ==
    /\ ticks = 10
    /\ counter[0] = 5
    /\ counter[1] = 2
    /\ counter[2] = 1

\* C14: ADC_InitModule, called after any Service, SetChannel and format
\* calls, restores the empty state (default channel, s_lastKickMs 0,
\* ADC_GetLastTempC 0, ADC_GetAvgTempC 0), and every later average is the
\* mean of the samples pushed since that call only.
C14_InitRestoresEmptyState ==
    /\ [][(pushed # <<>> /\ pushed' = <<>>) =>
             /\ s_activeChannel' = ADC16_DEFAULT_CHANNEL
             /\ s_lastKickMs' = 0
             /\ ADC_GetLastTempC' = 0
             /\ ADC_GetAvgTempC' = 0]_vars
    /\ [](IF pushed = <<>>
          THEN ADC_GetAvgTempC = 0
          ELSE ADC_GetAvgTempC = SeqSum(pushed) \div Len(pushed))

\* C14 witness: after pushes, a channel change and a format call, the
\* module was initialised again and one sample, 10, pushed: the average is
\* 10 although the slots still hold 31 and 20 from before.
C14_Witness ==
    /\ pushed = <<10>>
    /\ s_tempBuf[1] = 31
    /\ s_tempBuf[2] = 20
    /\ lastFormat = 23
    /\ s_activeChannel = ADC16_DEFAULT_CHANNEL
    /\ ADC_GetAvgTempC = 10

\* C16: an ADC_Service call whose wraparound-safe elapsed time
\* (tick - s_lastKickMs) is below the sampling period is a no-op: no
\* conversion, and s_lastKickMs, s_lastTempC, the buffer, count, index,
\* channel and the ASCII buffer are all unchanged.
C16_EarlyServiceIsNoOp ==
    [][(svc'.called /\ TickSub(svc'.tick_ms, svc'.last) < ADC_SAMPLE_PERIOD_MS) =>
          /\ ~svc'.conv
          /\ s_lastKickMs' = s_lastKickMs
          /\ s_lastTempC' = s_lastTempC
          /\ s_tempBuf' = s_tempBuf
          /\ s_tempCount' = s_tempCount
          /\ s_tempIndex' = s_tempIndex
          /\ s_activeChannel' = s_activeChannel
          /\ gAdcTempAscii' = gAdcTempAscii]_vars

\* C16 witness: a call 19 ticks after the latest conversion, the counter
\* having rolled over in between, has left two samples in the buffer.
C16_Witness ==
    /\ svc.called
    /\ ~svc.conv
    /\ svc.d = ADC_SAMPLE_PERIOD_MS - 1
    /\ svc.tick_ms < svc.last
    /\ s_tempCount = 2

\* C17: across pushes after ADC_InitModule, s_tempCount <= 5 and
\* s_tempIndex is in [0, 4], the index is (number of pushes) mod 5 and the
\* count min(number of pushes, 5); a count of 5 never decreases, and each
\* further push overwrites exactly the oldest sample, so the buffer holds
\* the 5 most recent ones, the oldest at the index.
C17_RingBufferShape ==
    /\ [](/\ s_tempCount <= 5
          /\ s_tempIndex >= 0
          /\ s_tempIndex <= 4
          /\ s_tempIndex = nPushes % 5
          /\ s_tempCount = Min(nPushes, 5)
          /\ nPushes >= 5 =>
                \A k \in 1 .. 5 : s_tempBuf[(s_tempIndex + k - 1) % 5] = pushed[k])
    /\ [][nPushes' = nPushes + 1 =>
             /\ s_tempCount' >= s_tempCount
             /\ s_tempBuf'[s_tempIndex] = pushed'[Len(pushed')]
             /\ \A k \in 0 .. 4 : k # s_tempIndex => s_tempBuf'[k] = s_tempBuf[k]
             /\ s_tempCount = 5 => pushed' = Tail(pushed) \o <<s_tempBuf'[s_tempIndex]>>]_vars

\* C17 witness: seven pushes since the initialisation; the index is 2 and
\* the buffer holds the last five, the two oldest pushes overwritten.
C17_Witness ==
    /\ nPushes = 7
    /\ s_tempIndex = 2
    /\ s_tempCount = 5
    /\ pushed = <<10, 20, 31, 10, 31>>
    /\ s_tempBuf[0] = 10
    /\ s_tempBuf[1] = 31

\* C20: each conversion (a call that moves s_lastKickMs, outside
\* ADC_InitModule) makes exactly one push, and nothing else pushes;
\* whenever s_tempCount > 0, ADC_GetLastTempC is the sample in the most
\* recently written slot, (s_tempIndex - 1) mod 5; ADC_GetLastTempC and
\* ADC_GetAvgTempC are always in [0, 40].
C20_LastIsNewestSlot ==
    /\ [](/\ s_tempCount > 0 =>
                ADC_GetLastTempC = s_tempBuf[(s_tempIndex + 4) % 5]
          /\ ADC_GetLastTempC >= 0
          /\ ADC_GetLastTempC <= 40
          /\ ADC_GetAvgTempC >= 0
          /\ ADC_GetAvgTempC <= 40)
    /\ [][pushed' # <<>> =>
             /\ (s_lastKickMs' # s_lastKickMs) =>
                   /\ s_tempIndex' = (s_tempIndex + 1) % 5
                   /\ s_tempCount' = Min(s_tempCount + 1, 5)
                   /\ s_tempBuf'[s_tempIndex] = ADC_GetLastTempC'
                   /\ \A k \in 0 .. 4 :
                         k # s_tempIndex => s_tempBuf'[k] = s_tempBuf[k]
             /\ (s_tempBuf' # s_tempBuf \/ s_tempIndex' # s_tempIndex) =>
                   (s_lastKickMs' # s_lastKickMs)]_vars

\* C20 witness: the index has wrapped to 0, the newest sample, 31, sits in
\* slot 4 and is what ADC_GetLastTempC returns.
C20_Witness ==
    /\ s_tempCount = 5
    /\ s_tempIndex = 0
    /\ ADC_GetLastTempC = 31
    /\ s_tempBuf[4] = 31
    /\ s_tempBuf[0] = 10
    /\ s_tempBuf[3] = 20

\* C18: once the sampler's handler is stuck in a conversion that never
\* completes, no handler is ever invoked again, main never leaves the
\* polling loop, and the sampling descriptor stays in EXECUTE for ever,
\* while ticks go on.
C18_HangKeepsSamplerInExecute ==
    /\ [](pc = "poll" => ThreadTable[SamplerTask].ThreadState = EXECUTE)
    /\ [][pc = "poll" => (pc' = "poll" /\ counter' = counter)]_vars

====
